---- MODULE Spec2Model ----
(***************************************************************************)
(* The shopping cart of context/CartContext.js as a state machine.         *)
(*                                                                         *)
(* CartProvider keeps the cart in a React state cell (cartItems).  The     *)
(* mutating callbacks never write the cell: each hands setCartItems an     *)
(* updater, which React queues and applies, in call order, at the next     *)
(* render.  Two effects tie the cell to localStorage: a mount effect that  *)
(* loads the 'shopping-cart' slot and a save effect that rewrites the slot *)
(* after every commit that changed cartItems.                              *)
(***************************************************************************)
EXTENDS Integers, Sequences, FiniteSets, TLC

(***************************************************************************)
(* Bounds of the model and the inputs the actions draw from.               *)
(***************************************************************************)
\* Calls made before React renders again (the length of the update queue).
MaxQueue == 2
\* Largest quantity an entry is allowed to reach.
MaxQty == 3

\* Quantities passed to addToCart and to updateQuantity.
AddQuantities == {-1, 1, 2}
SetQuantities == {-1, 0, 2}

ProductIds == {1, 2}

\* Catalog records handed to addToCart, as ProductDetail builds them
\* ({...product, selectedColor, selectedSize}); originalPrice is optional:
\* {} when absent.
Product(i) ==
  IF i = 1
    THEN [id |-> 1, price |-> 10, originalPrice |-> {},
          selectedColor |-> "null", selectedSize |-> "null"]
    ELSE [id |-> 2, price |-> 25, originalPrice |-> {30},
          selectedColor |-> "red", selectedSize |-> "M"]

\* The same product after a catalog price change, picked with other options.
ProductVariant(i) ==
  IF i = 1
    THEN [id |-> 1, price |-> 12, originalPrice |-> {15},
          selectedColor |-> "blue", selectedSize |-> "L"]
    ELSE [id |-> 2, price |-> 20, originalPrice |-> {},
          selectedColor |-> "green", selectedSize |-> "S"]

VARIABLES
  cartItems,   \* the state cell, as of the last render
  queue,       \* updates handed to setCartItems and not yet rendered
  effects,     \* passive effects scheduled by the last commit, in order
  storage,     \* localStorage's 'shopping-cart' slot
  lastRender,  \* history: the last two updates the last render applied, and the snapshot before them
  saved,       \* history: the snapshot whose serialization was last written to the slot
  saveFailed,  \* history: the last write of the slot threw
  firstAdded,  \* history: the ids in the cart, in the order the calls first added them
  mountInfo,   \* history: what the slot held at the last mount, until the first user call
  cell,        \* what the state cell holds: "array" (cartItems), or "null", "number", "object"
  thrown,      \* the error that escaped to React ("" while none has)
  catalog,           \* CategoryPage: PRODUCTS
  categoryName,      \* CategoryPage: the categoryName prop
  categoryProducts,  \* CategoryPage: the filtered list of the last render
  quantityState, \* ProductCard / ProductDetail: the quantity state of each product's selector
  isAdding,    \* ProductCard / ProductDetail: the isAdding state of each product's button
  stock,       \* PRODUCTS: each product's stock, {} when the key is absent
  formKind,    \* which form is mounted: "login" or "register"
  formData,    \* Login / Register: the formData state
  errors,      \* Login / Register: the keys of the errors state that hold a message
  isLoading,   \* Login / Register: the isLoading state
  submitting,  \* Login / Register: where handleSubmit stands, and the data it validated
  route        \* the path router.push was last called with ("" for none)

cartVars ==
  <<cartItems, queue, effects, storage, lastRender, saved, saveFailed, firstAdded,
    mountInfo, cell, thrown>>

pageVars == <<catalog, categoryName, categoryProducts>>

selectorVars == <<quantityState, isAdding, stock>>

formVars == <<formKind, formData, errors, isLoading, submitting, route>>

uiVars == <<selectorVars, formVars>>

vars == <<cartVars, pageVars, uiVars>>

(***************************************************************************)
(* Sequences of entries.                                                   *)
(***************************************************************************)
Ids(items) == [i \in 1..Len(items) |-> items[i].id]

HasId(items, id) == \E i \in 1..Len(items) : items[i].id = id

CountId(items, id) == Cardinality({i \in 1..Len(items) : items[i].id = id})

RECURSIVE Filter(_, _)
\* prevItems.filter((item) => item.id !== productId)
Filter(items, id) ==
  IF items = <<>> THEN <<>>
  ELSE IF Head(items).id # id
    THEN <<Head(items)>> \o Filter(Tail(items), id)
    ELSE Filter(Tail(items), id)

(***************************************************************************)
(* JSON.stringify and JSON.parse on a cart.  The text of an object keeps   *)
(* only the keys whose value is defined; parsing gives the keys back and   *)
(* leaves the others undefined.                                            *)
(***************************************************************************)
EntryKeys(e) ==
  {"id", "price", "selectedColor", "selectedSize", "quantity"}
    \cup (IF e.originalPrice = {} THEN {} ELSE {"originalPrice"})

ObjectText(e) ==
  [k \in EntryKeys(e) |->
     CASE k = "id" -> e.id
       [] k = "price" -> e.price
       [] k = "selectedColor" -> e.selectedColor
       [] k = "selectedSize" -> e.selectedSize
       [] k = "quantity" -> e.quantity
       [] k = "originalPrice" -> CHOOSE p \in e.originalPrice : TRUE]

\* A parse that loses the optional key.
ParseObjectNoOriginalPrice(t) ==
  [id |-> t.id, price |-> t.price, selectedColor |-> t.selectedColor,
   selectedSize |-> t.selectedSize, quantity |-> t.quantity, originalPrice |-> {}]

ParseObject(t) ==
  [id |-> t.id, price |-> t.price, selectedColor |-> t.selectedColor,
   selectedSize |-> t.selectedSize, quantity |-> t.quantity,
   originalPrice |-> IF "originalPrice" \in DOMAIN t THEN {t.originalPrice} ELSE {}]

JSONstringify(items) ==
  [kind |-> "array", items |-> [i \in 1..Len(items) |-> ObjectText(items[i])]]

JSONparse(text) == [i \in 1..Len(text.items) |-> ParseObject(text.items[i])]

\* localStorage.getItem on a slot that was never written returns null.
NoValue == [kind |-> "null", items |-> <<>>]

\* Slot values that are not the text of an array: text JSON.parse rejects,
\* and the texts of null, of a number and of an object.
OtherText(kind) == [kind |-> kind, items |-> <<>>]

\* Whether JSON.parse(savedCart) throws a SyntaxError.
JSONparseThrows(text) == text.kind = "unparsable"

\* What JSON.parse returns for a text that is not an array's.
ParsedOther(text) ==
  CASE text.kind = "json:null" -> "null"
    [] text.kind = "json:number" -> "number"
    [] text.kind = "json:object" -> "object"

\* JSON.stringify of what the state cell holds.
StringifyCell(kind, items) ==
  CASE kind = "array" -> JSONstringify(items)
    [] kind = "null" -> OtherText("json:null")
    [] kind = "number" -> OtherText("json:number")
    [] kind = "object" -> OtherText("json:object")

(***************************************************************************)
(* The updaters handed to setCartItems.                                    *)
(***************************************************************************)
NoProduct == <<>>

\* addToCart's updater closes over product and quantity.
AddUpdate(product, quantity) ==
  [call |-> "addToCart", kind |-> "add", id |-> product.id, quantity |-> quantity,
   product |-> <<product>>, value |-> <<>>]

\* removeFromCart's updater closes over productId.
FilterUpdate(call, productId, quantity) ==
  [call |-> call, kind |-> "filter", id |-> productId, quantity |-> quantity,
   product |-> NoProduct, value |-> <<>>]

\* updateQuantity's updater closes over productId and quantity.
MapUpdate(productId, quantity) ==
  [call |-> "updateQuantity", kind |-> "map", id |-> productId, quantity |-> quantity,
   product |-> NoProduct, value |-> <<>>]

\* setCartItems(value): clearCart's [] and the load effect's parsed cart.
SetUpdate(call, value) ==
  [call |-> call, kind |-> "set", id |-> 0, quantity |-> 0,
   product |-> NoProduct, value |-> value]

\* setCartItems(value) with a parsed value that is not an array.
SetOtherUpdate(call, other) ==
  [call |-> call, kind |-> "setOther", id |-> 0, quantity |-> 0,
   product |-> NoProduct, value |-> <<>>, other |-> other]

NewEntry(product, quantity) ==
  [id |-> product.id, price |-> product.price,
   originalPrice |-> product.originalPrice,
   selectedColor |-> product.selectedColor,
   selectedSize |-> product.selectedSize,
   quantity |-> quantity]

\* addToCart without the lookup: the product is appended whether or not it is there.
AddToCartUpdaterAppend(prevItems, product, quantity) ==
  Append(prevItems, NewEntry(product, quantity))

\* addToCart putting a new entry first instead of last.
AddToCartUpdaterPrepend(prevItems, product, quantity) ==
  IF HasId(prevItems, product.id)
    THEN [i \in 1..Len(prevItems) |->
            IF prevItems[i].id = product.id
              THEN [prevItems[i] EXCEPT !.quantity = prevItems[i].quantity + quantity]
              ELSE prevItems[i]]
    ELSE <<NewEntry(product, quantity)>> \o prevItems

\* addToCart overwriting the quantity of an entry it finds.
AddToCartUpdaterOverwrite(prevItems, product, quantity) ==
  IF HasId(prevItems, product.id)
    THEN [i \in 1..Len(prevItems) |->
            IF prevItems[i].id = product.id
              THEN [prevItems[i] EXCEPT !.quantity = quantity]
              ELSE prevItems[i]]
    ELSE Append(prevItems, NewEntry(product, quantity))

\* addToCart refusing a quantity that is not positive.
AddToCartUpdaterValidated(prevItems, product, quantity) ==
  IF quantity <= 0 THEN prevItems
  ELSE IF HasId(prevItems, product.id)
    THEN [i \in 1..Len(prevItems) |->
            IF prevItems[i].id = product.id
              THEN [prevItems[i] EXCEPT !.quantity = prevItems[i].quantity + quantity]
              ELSE prevItems[i]]
    ELSE Append(prevItems, NewEntry(product, quantity))

\* addToCart refreshing an entry it finds from the product handed in
\* ({...item, ...product, quantity: item.quantity + quantity}).
AddToCartUpdaterRefresh(prevItems, product, quantity) ==
  IF HasId(prevItems, product.id)
    THEN [i \in 1..Len(prevItems) |->
            IF prevItems[i].id = product.id
              THEN NewEntry(product, prevItems[i].quantity + quantity)
              ELSE prevItems[i]]
    ELSE Append(prevItems, NewEntry(product, quantity))

\* The body of addToCart's updater.
AddToCartUpdater(prevItems, product, quantity) ==
  IF HasId(prevItems, product.id)
    THEN [i \in 1..Len(prevItems) |->
            IF prevItems[i].id = product.id
              THEN [prevItems[i] EXCEPT !.quantity = prevItems[i].quantity + quantity]
              ELSE prevItems[i]]
    ELSE Append(prevItems, NewEntry(product, quantity))

\* removeFromCart taking productId for a position in the array.
RECURSIVE DropAt(_, _)
DropAt(items, k) ==
  IF items = <<>> THEN <<>>
  ELSE IF k = 1 THEN Tail(items)
  ELSE <<Head(items)>> \o DropAt(Tail(items), k - 1)

RemoveFromCartUpdaterByIndex(prevItems, productId) == DropAt(prevItems, productId)

\* The body of removeFromCart's updater.
RemoveFromCartUpdater(prevItems, productId) == Filter(prevItems, productId)

\* updateQuantity creating the entry it does not find.
UpdateQuantityUpdaterUpsert(prevItems, productId, quantity) ==
  IF HasId(prevItems, productId)
    THEN [i \in 1..Len(prevItems) |->
            IF prevItems[i].id = productId
              THEN [prevItems[i] EXCEPT !.quantity = quantity]
              ELSE prevItems[i]]
    ELSE Append(prevItems, NewEntry(Product(productId), quantity))

\* updateQuantity adding to the quantity instead of replacing it.
UpdateQuantityUpdaterAdd(prevItems, productId, quantity) ==
  [i \in 1..Len(prevItems) |->
     IF prevItems[i].id = productId
       THEN [prevItems[i] EXCEPT !.quantity = prevItems[i].quantity + quantity]
       ELSE prevItems[i]]

\* The body of updateQuantity's updater (the quantity > 0 branch).
UpdateQuantityUpdater(prevItems, productId, quantity) ==
  [i \in 1..Len(prevItems) |->
     IF prevItems[i].id = productId
       THEN [prevItems[i] EXCEPT !.quantity = quantity]
       ELSE prevItems[i]]

\* updateQuantity guarding with quantity < 0.
UpdateQuantityCallNegativeOnly(productId, quantity) ==
  IF quantity < 0
    THEN FilterUpdate("updateQuantity", productId, quantity)
    ELSE MapUpdate(productId, quantity)

\* What updateQuantity hands to setCartItems: removeFromCart's updater when
\* quantity <= 0, its own otherwise.
UpdateQuantityCall(productId, quantity) ==
  IF quantity <= 0
    THEN FilterUpdate("updateQuantity", productId, quantity)
    ELSE MapUpdate(productId, quantity)

\* React applying one queued update to the state.
ApplyUpdate(prevItems, u) ==
  CASE u.kind = "add" -> AddToCartUpdater(prevItems, u.product[1], u.quantity)
    [] u.kind = "filter" -> RemoveFromCartUpdater(prevItems, u.id)
    [] u.kind = "map" -> UpdateQuantityUpdater(prevItems, u.id, u.quantity)
    [] u.kind = "set" -> u.value
    [] u.kind = "setOther" -> <<>>

\* What the cell holds after one queued update: the updaters call find, map
\* and filter on the previous value, which throws unless it is an array.
CellAfterUpdate(kind, u) ==
  CASE u.kind = "set" -> "array"
    [] u.kind = "setOther" -> u.other
    [] OTHER -> IF kind = "array" THEN "array" ELSE "TypeError"

RECURSIVE CellAfter(_, _)
CellAfter(kind, updates) ==
  IF updates = <<>> \/ kind = "TypeError" THEN kind
  ELSE CellAfter(CellAfterUpdate(kind, Head(updates)), Tail(updates))

\* A queue in which every update is computed from the rendered state, so
\* that the last one wins (setCartItems(value) in place of an updater).
ProcessQueueLastOnly(items, updates) ==
  IF updates = <<>> THEN items ELSE ApplyUpdate(items, updates[Len(updates)])

RECURSIVE ProcessQueue(_, _)
\* React processing the update queue at render: each update is applied to
\* the result of the one before it.
ProcessQueue(state, updates) ==
  IF updates = <<>> THEN state
  ELSE ProcessQueue(ApplyUpdate(state, Head(updates)), Tail(updates))

\* setCartItems writing the cell at once, as well as queueing the update.
DispatchEager(items, pending, u) ==
  [items |-> ApplyUpdate(items, u), queue |-> Append(pending, u)]

\* setCartItems(update): the update is queued; the cell the callers closed
\* over is not written.
Dispatch(items, pending, u) == [items |-> items, queue |-> Append(pending, u)]

\* A save effect that runs on mount only (a dependency array of []).
EffectsAfterCommitNone(prevItems, nextItems) == <<>>

\* The effects a commit schedules: the save effect depends on [cartItems],
\* and every updater returns a fresh array, so it runs after every render
\* that applied an update.
EffectsAfterCommit(prevItems, nextItems) == <<"save">>

(***************************************************************************)
(* The derived reads, closed over the cartItems of the last render.        *)
(***************************************************************************)
RECURSIVE SumQuantity(_)
SumQuantity(items) ==
  IF items = <<>> THEN 0 ELSE Head(items).quantity + SumQuantity(Tail(items))

\* A total that adds each entry's price once, whatever its quantity.
RECURSIVE SumPriceUnit(_)
SumPriceUnit(items) ==
  IF items = <<>> THEN 0 ELSE Head(items).price + SumPriceUnit(Tail(items))

RECURSIVE SumPrice(_)
SumPrice(items) ==
  IF items = <<>> THEN 0
  ELSE Head(items).price * Head(items).quantity + SumPrice(Tail(items))

getTotalItems == SumQuantity(cartItems)
getTotalPrice == SumPrice(cartItems)

\* An emptiness test on the item count instead of the number of entries.
isCartEmptyByTotal == getTotalItems = 0

isCartEmpty == Len(cartItems) = 0

\* The reads on a cell that holds no array: reduce is no function of a number
\* or an object and null has no properties; an undefined length is not 0.
getTotalItemsThrows(kind) == kind # "array"

getTotalPriceThrows(kind) == kind # "array"

isCartEmptyThrows(kind) == kind = "null"

(***************************************************************************)
(* The category filter of CategoryPage.  A string is the sequence of its   *)
(* characters, so that toLowerCase is computed and not assumed.            *)
(***************************************************************************)
MaxCatalog == 2

UpperCase ==
  <<"A", "B", "C", "D", "E", "F", "G", "H", "I", "J", "K", "L", "M", "N", "O", "P", "Q", "R", "S", "T", "U", "V", "W", "X", "Y", "Z">>

LowerCase ==
  <<"a", "b", "c", "d", "e", "f", "g", "h", "i", "j", "k", "l", "m", "n", "o", "p", "q", "r", "s", "t", "u", "v", "w", "x", "y", "z">>

\* A comparison that leaves the letters as they are.
toLowerCaseIdentity(text) == text

\* String.prototype.toLowerCase: the lower-case letter of each upper-case one.
LowerCaseOf ==
  [c \in {UpperCase[k] : k \in 1..Len(UpperCase)} |->
     LowerCase[CHOOSE k \in 1..Len(UpperCase) : UpperCase[k] = c]]

toLowerCase(text) ==
  [i \in 1..Len(text) |->
     IF text[i] \in DOMAIN LowerCaseOf THEN LowerCaseOf[text[i]] ELSE text[i]]

\* "Sale & Clearance"
TextSaleClearance ==
  <<"S", "a", "l", "e", " ", "&", " ", "C", "l", "e", "a", "r", "a", "n", "c", "e">>

\* "sale-clearance"
TextSaleClearanceSlug ==
  <<"s", "a", "l", "e", "-", "c", "l", "e", "a", "r", "a", "n", "c", "e">>

\* "SALE-CLEARANCE"
TextSaleClearanceUpper ==
  <<"S", "A", "L", "E", "-", "C", "L", "E", "A", "R", "A", "N", "C", "E">>

\* "Featured"
TextFeatured ==
  <<"F", "e", "a", "t", "u", "r", "e", "d">>

\* "FEATURED"
TextFeaturedUpper ==
  <<"F", "E", "A", "T", "U", "R", "E", "D">>

\* "Cyber Days"
TextCyberDays ==
  <<"C", "y", "b", "e", "r", " ", "D", "a", "y", "s">>

\* "cyber-days"
TextCyberDaysSlug ==
  <<"c", "y", "b", "e", "r", "-", "d", "a", "y", "s">>

\* "Black Friday"
TextBlackFriday ==
  <<"B", "l", "a", "c", "k", " ", "F", "r", "i", "d", "a", "y">>

\* "black-friday"
TextBlackFridaySlug ==
  <<"b", "l", "a", "c", "k", "-", "f", "r", "i", "d", "a", "y">>

\* "Work Boots & Shoes"
TextWorkBoots ==
  <<"W", "o", "r", "k", " ", "B", "o", "o", "t", "s", " ", "&", " ", "S", "h", "o", "e", "s">>

\* "work boots & shoes"
TextWorkBootsLower ==
  <<"w", "o", "r", "k", " ", "b", "o", "o", "t", "s", " ", "&", " ", "s", "h", "o", "e", "s">>

\* "work-boots-and-shoes"
TextWorkBootsSlug ==
  <<"w", "o", "r", "k", "-", "b", "o", "o", "t", "s", "-", "a", "n", "d", "-", "s", "h", "o", "e", "s">>

\* "Shoes"
TextShoes ==
  <<"S", "h", "o", "e", "s">>

\* "shoes"
TextShoesLower ==
  <<"s", "h", "o", "e", "s">>

\* "SHOES"
TextShoesUpper ==
  <<"S", "H", "O", "E", "S">>

\* "Hats"
TextHats ==
  <<"H", "a", "t", "s">>

\* The spaced literals the rules compare with.
\* "sale & clearance"
TextSaleClearanceLower ==
  <<"s", "a", "l", "e", " ", "&", " ", "c", "l", "e", "a", "r", "a", "n", "c", "e">>

\* "cyber days"
TextCyberDaysLower ==
  <<"c", "y", "b", "e", "r", " ", "d", "a", "y", "s">>

\* "black friday"
TextBlackFridayLower ==
  <<"b", "l", "a", "c", "k", " ", "f", "r", "i", "d", "a", "y">>

\* "featured"
TextFeaturedLower ==
  <<"f", "e", "a", "t", "u", "r", "e", "d">>

\* The categoryName props the pages pass.
Selectors ==
  { TextSaleClearance,
    TextSaleClearanceSlug,
    TextSaleClearanceUpper,
    TextFeatured,
    TextFeaturedUpper,
    TextCyberDays,
    TextCyberDaysSlug,
    TextBlackFriday,
    TextBlackFridaySlug,
    TextWorkBoots,
    TextWorkBootsLower,
    TextWorkBootsSlug,
    TextShoes,
    TextShoesLower,
    TextShoesUpper,
    TextHats }

\* The category of a catalog product: optional, {} when the key is absent.
Categories == { {}, {TextShoes}, {TextFeatured}, {TextWorkBoots}, {TextWorkBootsLower} }

\* The shapes of a catalog product, its id apart.
ProductShapes == [category : Categories, onSale : BOOLEAN, featured : BOOLEAN]

\* PRODUCTS: products of unique ids, here their positions.
Catalogs ==
  UNION { { [i \in 1..n |->
               [id |-> i, category |-> shapes[i].category,
                onSale |-> shapes[i].onSale, featured |-> shapes[i].featured]] :
            shapes \in [1..n -> ProductShapes] } :
          n \in 0..MaxCatalog }

\* A filter callback that tries the category before the promotional rules.
KeepProductCategoryFirst(name, product) ==
  LET lower == toLowerCase(name)
  IN IF product.category # {} /\ toLowerCase(CHOOSE c \in product.category : TRUE) = lower
       THEN TRUE
     ELSE IF lower = TextSaleClearanceLower \/ lower = TextSaleClearanceSlug
       THEN product.onSale = TRUE
     ELSE IF lower = TextFeaturedLower
       THEN product.featured = TRUE
     ELSE IF lower = TextCyberDaysLower \/ lower = TextCyberDaysSlug
       THEN product.onSale = TRUE \/ product.featured = TRUE
     ELSE IF lower = TextBlackFridayLower \/ lower = TextBlackFridaySlug
       THEN product.onSale = TRUE
     ELSE IF lower = TextWorkBootsLower \/ lower = TextWorkBootsSlug
       THEN product.category = {TextWorkBoots}
     ELSE FALSE

\* A callback whose work boots rule lower-cases the category as the default rule does.
KeepProductRule5AnyCase(name, product) ==
  LET lower == toLowerCase(name)
  IN IF lower = TextSaleClearanceLower \/ lower = TextSaleClearanceSlug
       THEN product.onSale = TRUE
     ELSE IF lower = TextFeaturedLower
       THEN product.featured = TRUE
     ELSE IF lower = TextCyberDaysLower \/ lower = TextCyberDaysSlug
       THEN product.onSale = TRUE \/ product.featured = TRUE
     ELSE IF lower = TextBlackFridayLower \/ lower = TextBlackFridaySlug
       THEN product.onSale = TRUE
     ELSE IF lower = TextWorkBootsLower \/ lower = TextWorkBootsSlug
       THEN product.category # {}
            /\ toLowerCase(CHOOSE c \in product.category : TRUE) = TextWorkBootsLower
     ELSE IF product.category = {}
       THEN FALSE
     ELSE toLowerCase(CHOOSE c \in product.category : TRUE) = lower

\* A callback whose default rule compares category and selector as they are written.
KeepProductDefaultExact(name, product) ==
  LET lower == toLowerCase(name)
  IN IF lower = TextSaleClearanceLower \/ lower = TextSaleClearanceSlug
       THEN product.onSale = TRUE
     ELSE IF lower = TextFeaturedLower
       THEN product.featured = TRUE
     ELSE IF lower = TextCyberDaysLower \/ lower = TextCyberDaysSlug
       THEN product.onSale = TRUE \/ product.featured = TRUE
     ELSE IF lower = TextBlackFridayLower \/ lower = TextBlackFridaySlug
       THEN product.onSale = TRUE
     ELSE IF lower = TextWorkBootsLower \/ lower = TextWorkBootsSlug
       THEN product.category = {TextWorkBoots}
     ELSE IF product.category = {}
       THEN FALSE
     ELSE (CHOOSE c \in product.category : TRUE) = name

\* The callback of PRODUCTS.filter: the first rule whose selector matches decides.
KeepProduct(name, product) ==
  LET lower == toLowerCase(name)
  IN IF lower = TextSaleClearanceLower \/ lower = TextSaleClearanceSlug
       THEN product.onSale = TRUE
     ELSE IF lower = TextFeaturedLower
       THEN product.featured = TRUE
     ELSE IF lower = TextCyberDaysLower \/ lower = TextCyberDaysSlug
       THEN product.onSale = TRUE \/ product.featured = TRUE
     ELSE IF lower = TextBlackFridayLower \/ lower = TextBlackFridaySlug
       THEN product.onSale = TRUE
     ELSE IF lower = TextWorkBootsLower \/ lower = TextWorkBootsSlug
       THEN product.category = {TextWorkBoots}
     ELSE IF product.category = {}
       THEN FALSE
     ELSE toLowerCase(CHOOSE c \in product.category : TRUE) = lower

\* A filter that returns the kept products last first.
RECURSIVE FilterProductsReversed(_, _)
FilterProductsReversed(name, products) ==
  IF products = <<>> THEN <<>>
  ELSE FilterProductsReversed(name, Tail(products))
         \o (IF KeepProduct(name, Head(products)) THEN <<Head(products)>> ELSE <<>>)

\* Array.prototype.filter with that callback.
RECURSIVE FilterProducts(_, _)
FilterProducts(name, products) ==
  IF products = <<>> THEN <<>>
  ELSE (IF KeepProduct(name, Head(products)) THEN <<Head(products)>> ELSE <<>>)
         \o FilterProducts(name, Tail(products))

(***************************************************************************)
(* The state machine.                                                      *)
(***************************************************************************)
NoRender == [pre |-> <<>>, ops |-> <<>>]

\* The quantity selectors as they mount: useState(1), useState(false).
SelectorsMounted ==
  /\ quantityState = [id \in ProductIds |-> 1]
  /\ isAdding = [id \in ProductIds |-> FALSE]

\* A catalog that gives no product a stock.
NoStock == [id \in ProductIds |-> {}]

\* The empty formData of Login and of Register.
EmptyForm(kind) ==
  IF kind = "login"
    THEN [email |-> <<>>, password |-> <<>>]
    ELSE [name |-> <<>>, email |-> <<>>, password |-> <<>>, confirmPassword |-> <<>>]

\* handleSubmit has not been called: pc is where it stands ("idle" once it
\* has returned, "awaiting" at its await), data the formData it last validated.
NotSubmitting == [pc |-> "idle", data |-> <<>>]

\* A form as it mounts.
FormMounted(kind) ==
  /\ formKind = kind
  /\ formData = EmptyForm(kind)
  /\ errors = {}
  /\ isLoading = FALSE
  /\ submitting = NotSubmitting
  /\ route = ""

\* The record of a render of these updates from this state: its last two
\* updates (or its only one) and the snapshot they were applied to.
RenderRecord(state, updates) ==
  LET n == Len(updates)
      k == IF n > 2 THEN n - 2 ELSE 0
  IN [pre |-> ProcessQueue(state, SubSeq(updates, 1, k)),
      ops |-> SubSeq(updates, k + 1, n)]
NoMount == [active |-> FALSE, slot |-> NoValue, snap |-> <<>>, loads |-> 0]

\* The effects of the first commit, in the order the component declares them.
MountEffects == <<"load", "save">>

\* With reactStrictMode a development build runs the mount effects, then
\* runs them once more, before it renders the updates they queued.
StrictModeEffects == MountEffects \o MountEffects

\* useState([]) and the first render, with the effects that commit schedules.
MountedWith(slot, snap, scheduled) ==
  /\ cartItems' = <<>>
  /\ queue' = <<>>
  /\ effects' = scheduled
  /\ lastRender' = NoRender
  /\ firstAdded' = <<>>
  /\ mountInfo' = [active |-> TRUE, slot |-> slot, snap |-> snap, loads |-> 0]
  /\ cell' = "array"
  /\ thrown' = ""

\* useState([]) and the first render: both effects are scheduled.
Mounted(slot, snap) == MountedWith(slot, snap, MountEffects)

\* The calls' account of the order of the ids: addToCart of an id that is
\* not in the cart puts it last, a removal takes it out, nothing else moves.
RECURSIVE WithoutId(_, _)
WithoutId(ids, id) ==
  IF ids = <<>> THEN <<>>
  ELSE IF Head(ids) = id THEN WithoutId(Tail(ids), id)
  ELSE <<Head(ids)>> \o WithoutId(Tail(ids), id)

OrderAfterCall(ids, u) ==
  CASE u.call = "addToCart" ->
         IF \E i \in 1..Len(ids) : ids[i] = u.id THEN ids ELSE Append(ids, u.id)
    [] u.call = "removeFromCart" -> WithoutId(ids, u.id)
    [] u.call = "updateQuantity" -> IF u.quantity <= 0 THEN WithoutId(ids, u.id) ELSE ids
    [] u.call = "clearCart" -> <<>>
    [] u.call = "load" -> [i \in 1..Len(u.value) |-> u.value[i].id]

RECURSIVE OrderAfterCalls(_, _)
OrderAfterCalls(ids, updates) ==
  IF updates = <<>> THEN ids
  ELSE OrderAfterCalls(OrderAfterCall(ids, Head(updates)), Tail(updates))

Init ==
  /\ cartItems = <<>>
  /\ queue = <<>>
  /\ effects = <<"load", "save">>
  /\ storage = NoValue
  /\ lastRender = NoRender
  /\ saved = <<>>
  /\ saveFailed = FALSE
  /\ firstAdded = <<>>
  /\ mountInfo = [active |-> TRUE, slot |-> NoValue, snap |-> <<>>, loads |-> 0]
  /\ cell = "array"
  /\ thrown = ""
  /\ catalog = <<>>
  /\ categoryName = <<>>
  /\ categoryProducts = <<>>
  /\ SelectorsMounted
  /\ stock = NoStock
  /\ FormMounted("login")

\* The quantities the model lets an entry take.
MinQty == CHOOSE q \in AddQuantities : \A r \in AddQuantities : q <= r

InRange(items) ==
  \A i \in 1..Len(items) : items[i].quantity >= MinQty /\ items[i].quantity <= MaxQty

\* A callback of the context value called from an event handler.
Call(u) ==
  /\ thrown = ""
  /\ effects = <<>>
  /\ Len(queue) < MaxQueue
  /\ InRange(ProcessQueue(cartItems, Append(queue, u)))
  /\ LET d == Dispatch(cartItems, queue, u)
     IN /\ cartItems' = d.items
        /\ queue' = d.queue
  /\ lastRender' = NoRender
  /\ mountInfo' = NoMount
  /\ UNCHANGED <<effects, storage, saved, saveFailed, firstAdded, cell, thrown, pageVars, formVars>>

\* Such a call from a handler that sets no state of its component.
UserCall(u) == Call(u) /\ UNCHANGED selectorVars

AddToCart == \E id \in ProductIds, q \in AddQuantities : UserCall(AddUpdate(Product(id), q))

RemoveFromCart == \E id \in ProductIds : UserCall(FilterUpdate("removeFromCart", id, 0))

UpdateQuantity == \E id \in ProductIds, q \in SetQuantities : UserCall(UpdateQuantityCall(id, q))

ClearCart == UserCall(SetUpdate("clearCart", <<>>))

\* addToCart from a product page whose price and options may differ from
\* those an entry of the cart was added with.
CapturedQuantities == {1}

AddToCartVariant ==
  \E id \in ProductIds, q \in CapturedQuantities :
    \/ UserCall(AddUpdate(Product(id), q))
    \/ UserCall(AddUpdate(ProductVariant(id), q))

\* The mount effect without its try / catch.
LoadEffectOutcomeNoCatch(savedCart) ==
  CASE savedCart.kind = "null" -> [updates |-> <<>>, error |-> ""]
    [] JSONparseThrows(savedCart) -> [updates |-> <<>>, error |-> "SyntaxError"]
    [] savedCart.kind = "array" ->
         [updates |-> <<SetUpdate("load", JSONparse(savedCart))>>, error |-> ""]
    [] OTHER ->
         [updates |-> <<SetOtherUpdate("load", ParsedOther(savedCart))>>, error |-> ""]

\* The body of the mount effect on what getItem returned: the updates it
\* hands to setCartItems and the error that leaves it.  A null is skipped by
\* if (savedCart); a SyntaxError of JSON.parse is caught and logged.
LoadEffectOutcome(savedCart) ==
  CASE savedCart.kind = "null" -> [updates |-> <<>>, error |-> ""]
    [] JSONparseThrows(savedCart) -> [updates |-> <<>>, error |-> ""]
    [] savedCart.kind = "array" ->
         [updates |-> <<SetUpdate("load", JSONparse(savedCart))>>, error |-> ""]
    [] OTHER ->
         [updates |-> <<SetOtherUpdate("load", ParsedOther(savedCart))>>, error |-> ""]

\* The mount effect: read the slot and, if it holds a value, queue the parsed cart.
LoadEffect ==
  /\ thrown = ""
  /\ effects # <<>> /\ Head(effects) = "load"
  /\ effects' = Tail(effects)
  /\ LET out == LoadEffectOutcome(storage)
     IN /\ thrown' = out.error
        /\ IF out.updates # <<>>
             THEN /\ queue' = Dispatch(cartItems, queue, out.updates[1]).queue
                  /\ mountInfo' = [mountInfo EXCEPT !.loads = @ + 1]
             ELSE UNCHANGED <<queue, mountInfo>>
  /\ UNCHANGED <<cartItems, storage, lastRender, saved, saveFailed, firstAdded, cell, pageVars, uiVars>>

\* The save effect: write the serialized cartItems of this render to the slot.
SaveEffect ==
  /\ thrown = ""
  /\ effects # <<>> /\ Head(effects) = "save"
  /\ effects' = Tail(effects)
  /\ storage' = StringifyCell(cell, cartItems)
  /\ saved' = <<cartItems>>
  /\ saveFailed' = FALSE
  /\ UNCHANGED <<cartItems, queue, lastRender, firstAdded, mountInfo, cell, thrown, pageVars, uiVars>>

\* A render: React applies the queued updates and commits the result.
\* A save effect that re-schedules itself after a failed write.
FailedSaveOutcomeRetry(scheduled, slot) ==
  [effects |-> scheduled, storage |-> slot, error |-> ""]

\* A save effect that lets the error of setItem out.
FailedSaveOutcomeUncaught(scheduled, slot) ==
  [effects |-> Tail(scheduled), storage |-> slot, error |-> "QuotaExceededError"]

\* The save effect when setItem throws: the catch logs the error, the slot
\* keeps its value and the effect is done until cartItems changes again.
FailedSaveOutcome(scheduled, slot) ==
  [effects |-> Tail(scheduled), storage |-> slot, error |-> ""]

\* The save effect with localStorage.setItem throwing (quota, private mode).
SaveEffectThrows ==
  /\ thrown = ""
  /\ effects # <<>> /\ Head(effects) = "save"
  /\ LET out == FailedSaveOutcome(effects, storage)
     IN /\ effects' = out.effects
        /\ storage' = out.storage
        /\ thrown' = out.error
  /\ saveFailed' = TRUE
  /\ UNCHANGED <<cartItems, queue, lastRender, saved, firstAdded, mountInfo, cell, pageVars, uiVars>>

\* An updater that throws (its previous value is not an array) aborts the
\* render: nothing is committed and the error leaves the provider.
Render ==
  /\ thrown = ""
  /\ effects = <<>>
  /\ queue # <<>>
  /\ queue' = <<>>
  /\ LET kind == CellAfter(cell, queue)
     IN IF kind = "TypeError"
          THEN /\ thrown' = "TypeError"
               /\ UNCHANGED <<cartItems, cell, effects, lastRender, firstAdded>>
          ELSE /\ cell' = kind
               /\ cartItems' = IF kind = "array" THEN ProcessQueue(cartItems, queue) ELSE <<>>
               /\ effects' = EffectsAfterCommit(cartItems, cartItems')
               /\ lastRender' = RenderRecord(cartItems, queue)
               /\ firstAdded' = OrderAfterCalls(firstAdded, queue)
               /\ thrown' = ""
  /\ UNCHANGED <<storage, saved, saveFailed, mountInfo, pageVars, uiVars>>

\* A page reload: a fresh CartProvider against the same slot.
Restart ==
  /\ Mounted(storage, saved)
  /\ saveFailed' = FALSE
  /\ UNCHANGED <<storage, saved, pageVars, uiVars>>

Next ==
  \/ AddToCart
  \/ RemoveFromCart
  \/ UpdateQuantity
  \/ ClearCart
  \/ LoadEffect
  \/ SaveEffect
  \/ Render
  \/ Restart

Spec == Init /\ [][Next]_vars

\* What the slot may hold when the application starts: nothing, text that
\* is no JSON, the JSON of a value that is no array, or that of a cart.
StoredValues ==
  { NoValue, OtherText("unparsable"), OtherText("json:null"),
    OtherText("json:number"), OtherText("json:object"),
    JSONstringify(<<>>), JSONstringify(<<NewEntry(Product(2), 2)>>) }

InitLoad ==
  /\ storage \in StoredValues
  /\ cartItems = <<>>
  /\ queue = <<>>
  /\ effects = <<"load", "save">>
  /\ lastRender = NoRender
  /\ saved = <<>>
  /\ saveFailed = FALSE
  /\ firstAdded = <<>>
  /\ mountInfo = [active |-> TRUE, slot |-> storage, snap |-> <<>>, loads |-> 0]
  /\ cell = "array"
  /\ thrown = ""
  /\ catalog = <<>>
  /\ categoryName = <<>>
  /\ categoryProducts = <<>>
  /\ SelectorsMounted
  /\ stock = NoStock
  /\ FormMounted("login")

\* A render of the home page and its cart sidebar, consumers of the context:
\* they call getTotalItems(), getTotalPrice() and isCartEmpty() while rendering.
ConsumerRender ==
  /\ thrown = ""
  /\ thrown' = IF \/ getTotalItemsThrows(cell)
                  \/ getTotalPriceThrows(cell)
                  \/ isCartEmptyThrows(cell)
                THEN "TypeError" ELSE ""
  /\ UNCHANGED <<cartItems, queue, effects, storage, lastRender, saved, saveFailed,
                 firstAdded, mountInfo, cell, pageVars, uiVars>>

\* The cart started on any stored value, with its consumers rendering.
NextLoad ==
  \/ Next
  \/ ConsumerRender

SpecLoad == InitLoad /\ [][NextLoad]_vars

\* The keys of the value CartContext.Provider hands to its consumers.
ContextValueKeys ==
  {"cartItems", "addToCart", "removeFromCart", "updateQuantity", "clearCart",
   "getTotalItems", "getTotalPrice", "isCartEmpty"}

\* The functions ShoppingCart takes from useCart() and calls while rendering.
ShoppingCartCalls ==
  {"getTotalItems", "getTotalPrice", "getOriginalTotalPrice", "getTotalDiscount"}

\* A render of the cart page: ShoppingCart calls the four aggregates before
\* it looks at cartItems; calling a key the value lacks is a TypeError.
ShoppingCartRender ==
  /\ thrown = ""
  /\ effects = <<>>
  /\ thrown' = IF ShoppingCartCalls \subseteq ContextValueKeys
                /\ ~getTotalItemsThrows(cell) /\ ~getTotalPriceThrows(cell)
                THEN "" ELSE "TypeError"
  /\ UNCHANGED <<cartItems, queue, effects, storage, lastRender, saved, saveFailed,
                 firstAdded, mountInfo, cell, pageVars, uiVars>>

\* The cart with the cart page mounted.
NextCartPage ==
  \/ Next
  \/ ShoppingCartRender

SpecCartPage == Init /\ [][NextCartPage]_vars

\* A category page on any catalog, for any of the selectors.
InitFilter ==
  /\ catalog \in Catalogs
  /\ categoryName \in Selectors
  /\ categoryProducts = <<>>
  /\ SelectorsMounted
  /\ stock = NoStock
  /\ FormMounted("login")
  /\ cartItems = <<>>
  /\ queue = <<>>
  /\ effects = <<"load", "save">>
  /\ storage = NoValue
  /\ lastRender = NoRender
  /\ saved = <<>>
  /\ saveFailed = FALSE
  /\ firstAdded = <<>>
  /\ mountInfo = [active |-> TRUE, slot |-> NoValue, snap |-> <<>>, loads |-> 0]
  /\ cell = "array"
  /\ thrown = ""

\* A render of CategoryPage: categoryProducts is computed from PRODUCTS and
\* the categoryName prop (held in a one-element sequence once rendered).
CategoryPageRender ==
  /\ thrown = ""
  /\ categoryProducts' = <<FilterProducts(categoryName, catalog)>>
  /\ UNCHANGED <<cartVars, catalog, categoryName, uiVars>>

NextFilter == CategoryPageRender

SpecFilter == InitFilter /\ [][NextFilter]_vars

\* The cart under addToCart calls of any quantity, as a caller other than
\* the quantity selectors may make them.
UncheckedQuantities == {-1, 0, 1}

AddToCartUnchecked ==
  \E id \in ProductIds, q \in UncheckedQuantities : UserCall(AddUpdate(Product(id), q))

NextUnchecked ==
  \/ AddToCartUnchecked
  \/ RemoveFromCart
  \/ LoadEffect
  \/ SaveEffect
  \/ Render
  \/ Restart

SpecUnchecked == Init /\ [][NextUnchecked]_vars

(***************************************************************************)
(* The quantity selectors of ProductCard and ProductDetail (the same       *)
(* handlers in both) and the buttons of CartItem and ShoppingCart.         *)
(***************************************************************************)
StockOf(id) == CHOOSE n \in stock[id] : TRUE

\* A click is a discrete event: React renders the updates of one click
\* before it dispatches the next, so a click finds no update pending.
ClickDispatched == queue = <<>>

\* product.stock !== undefined && product.stock <= 0
IsOutOfStock(id) == stock[id] # {} /\ StockOf(id) <= 0

\* quantity < maxQuantity, maxQuantity being Infinity without a stock.
BelowMaxQuantity(id, q) == stock[id] = {} \/ q < StockOf(id)

\* Math.min(value, maxQuantity)
MinWithMaxQuantity(id, value) ==
  IF stock[id] # {} /\ StockOf(id) < value THEN StockOf(id) ELSE value

handleIncrement(id, q) == IF BelowMaxQuantity(id, q) THEN q + 1 ELSE q

handleDecrement(q) == IF q > 1 THEN q - 1 ELSE q

\* What parseInt(e.target.value, 10) may give: NaN ({}) or an integer.
ParsedValues == { {}, {-1}, {0}, {1}, {MaxQty} }

handleQuantityChange(id, parsed, q) ==
  IF parsed # {} /\ (CHOOSE v \in parsed : TRUE) > 0
    THEN MinWithMaxQuantity(id, CHOOSE v \in parsed : TRUE)
    ELSE q

\* The click on "+" of a selector (disabled when out of stock or at the stock).
SelectorIncrement ==
  \E id \in ProductIds :
    /\ ~(IsOutOfStock(id) \/ (stock[id] # {} /\ quantityState[id] >= StockOf(id)))
    /\ quantityState[id] < MaxQty
    /\ quantityState' = [quantityState EXCEPT ![id] = handleIncrement(id, @)]
    /\ UNCHANGED <<cartVars, pageVars, isAdding, stock, formVars>>

\* The click on "-" of a selector (disabled at 1 and when out of stock).
SelectorDecrement ==
  \E id \in ProductIds :
    /\ ~(quantityState[id] <= 1 \/ IsOutOfStock(id))
    /\ quantityState' = [quantityState EXCEPT ![id] = handleDecrement(@)]
    /\ UNCHANGED <<cartVars, pageVars, isAdding, stock, formVars>>

\* A value typed into the input of a selector (disabled when out of stock).
SelectorInput ==
  \E id \in ProductIds, parsed \in ParsedValues :
    /\ ~IsOutOfStock(id)
    /\ quantityState' = [quantityState EXCEPT ![id] = handleQuantityChange(id, parsed, @)]
    /\ UNCHANGED <<cartVars, pageVars, isAdding, stock, formVars>>

\* The click on Add to Cart (disabled while isAdding and when out of stock).
AddToCartClick ==
  \E id \in ProductIds :
    /\ ClickDispatched
    /\ ~(isAdding[id] \/ IsOutOfStock(id))
    /\ isAdding' = [isAdding EXCEPT ![id] = TRUE]
    /\ Call(AddUpdate(Product(id), quantityState[id]))
    /\ UNCHANGED <<quantityState, stock>>

\* The timeout of 300 ms that handleAddToCart sets.
AddingTimeout ==
  \E id \in ProductIds :
    /\ isAdding[id]
    /\ isAdding' = [isAdding EXCEPT ![id] = FALSE]
    /\ UNCHANGED <<cartVars, pageVars, quantityState, stock, formVars>>

\* handleQuantityChange of CartItem and of ShoppingCart with every new
\* quantity sent to updateQuantity.
CartItemQuantityChangeUnrouted(id, newQuantity) == UpdateQuantityCall(id, newQuantity)

\* handleQuantityChange of CartItem and of ShoppingCart.
CartItemQuantityChange(id, newQuantity) ==
  IF newQuantity < 1
    THEN FilterUpdate("removeFromCart", id, 0)
    ELSE UpdateQuantityCall(id, newQuantity)

\* The "-" and "+" of an item of the rendered cart, and its remove button.
CartItemDecrement ==
  \E i \in 1..Len(cartItems) :
    ClickDispatched /\ UserCall(CartItemQuantityChange(cartItems[i].id, cartItems[i].quantity - 1))

CartItemIncrement ==
  \E i \in 1..Len(cartItems) :
    ClickDispatched /\ UserCall(CartItemQuantityChange(cartItems[i].id, cartItems[i].quantity + 1))

CartItemRemove ==
  \E i \in 1..Len(cartItems) :
    ClickDispatched /\ UserCall(FilterUpdate("removeFromCart", cartItems[i].id, 0))

\* The Clear Cart button of the cart sidebar.
ClearCartClick == ClickDispatched /\ ClearCart

\* The stocks of the catalog: a stock of 2, none, and a stock of 0.
Stocks ==
  { [id \in ProductIds |-> IF id = 1 THEN {2} ELSE {}],
    [id \in ProductIds |-> IF id = 1 THEN {0} ELSE {2}] }

InitUI ==
  /\ stock \in Stocks
  /\ SelectorsMounted
  /\ FormMounted("login")
  /\ cartItems = <<>>
  /\ queue = <<>>
  /\ effects = <<"load", "save">>
  /\ storage = NoValue
  /\ lastRender = NoRender
  /\ saved = <<>>
  /\ saveFailed = FALSE
  /\ firstAdded = <<>>
  /\ mountInfo = [active |-> TRUE, slot |-> NoValue, snap |-> <<>>, loads |-> 0]
  /\ cell = "array"
  /\ thrown = ""
  /\ catalog = <<>>
  /\ categoryName = <<>>
  /\ categoryProducts = <<>>

\* The cart as the components drive it.
NextUI ==
  \/ SelectorIncrement
  \/ SelectorDecrement
  \/ SelectorInput
  \/ AddToCartClick
  \/ AddingTimeout
  \/ CartItemDecrement
  \/ CartItemIncrement
  \/ CartItemRemove
  \/ ClearCartClick
  \/ LoadEffect
  \/ SaveEffect
  \/ Render

SpecUI == InitUI /\ [][NextUI]_vars

(***************************************************************************)
(* The Login and Register forms.  Field values are sequences of            *)
(* characters, so that the checks of validateForm are computed.            *)
(***************************************************************************)
\* What the user may type into the fields.
NameTexts == { <<>>, <<"A">>, <<"A", "l">> }

EmailTexts == { <<>>, <<"a", "@", "b">>, <<"a", " ", "@", "b", ".", "c">>, <<"a", "@", "b", ".", "c">> }

PasswordTexts == { <<>>, <<"1", "2", "3", "4", "5">>, <<"1", "2", "3", "4", "5", "6">>, <<"a", "b", "c", "d", "e", "f">> }

FieldTexts(field) ==
  CASE field = "name" -> NameTexts
    [] field = "email" -> EmailTexts
    [] field = "password" -> PasswordTexts
    [] field = "confirmPassword" -> PasswordTexts

\* /\S+@\S+\.\S+/.test(text): somewhere in the text a non-space run, an @,
\* a non-space run, a dot and a non-space character.
NonSpace(c) == c # " "

EmailPattern(text) ==
  \E at \in 1..Len(text), dot \in 1..Len(text) :
    /\ text[at] = "@"
    /\ at > 1 /\ NonSpace(text[at - 1])
    /\ dot > at + 1
    /\ \A k \in (at + 1)..(dot - 1) : NonSpace(text[k])
    /\ text[dot] = "."
    /\ dot < Len(text) /\ NonSpace(text[dot + 1])

\* validateForm of Login: the keys of newErrors.
ValidateLogin(data) ==
  (IF data.email = <<>> \/ ~EmailPattern(data.email) THEN {"email"} ELSE {})
    \cup (IF data.password = <<>> \/ Len(data.password) < 6 THEN {"password"} ELSE {})

\* validateForm of Register: the keys of newErrors.
ValidateRegister(data) ==
  (IF data.name = <<>> \/ Len(data.name) < 2 THEN {"name"} ELSE {})
    \cup (IF data.email = <<>> \/ ~EmailPattern(data.email) THEN {"email"} ELSE {})
    \cup (IF data.password = <<>> \/ Len(data.password) < 6 THEN {"password"} ELSE {})
    \cup (IF data.confirmPassword = <<>> \/ data.password # data.confirmPassword
            THEN {"confirmPassword"} ELSE {})

validateForm(kind, data) ==
  IF kind = "login" THEN ValidateLogin(data) ELSE ValidateRegister(data)

\* Where the form sends the user: router.push('/') and router.push('/login').
Target(kind) == IF kind = "login" THEN "/" ELSE "/login"

\* A handleSubmit that goes on whatever validateForm returned.
SubmitProceedsAlways(newErrors) == TRUE

\* if (!validateForm()) return
SubmitProceeds(newErrors) == newErrors = {}

\* disabled={isLoading} on the submit button.
SubmitDisabled == isLoading

\* handleChange: the field takes the typed value and loses its error.
FormChange ==
  \E field \in DOMAIN formData :
    \E value \in FieldTexts(field) :
      /\ route = ""
      /\ formData' = [formData EXCEPT ![field] = value]
      /\ errors' = errors \ {field}
      /\ UNCHANGED <<cartVars, pageVars, selectorVars, formKind, isLoading, submitting, route>>

\* handleSubmit up to its return or its await.
Submit ==
  /\ route = ""
  /\ ~SubmitDisabled
  /\ submitting.pc = "idle"
  /\ LET newErrors == validateForm(formKind, formData)
     IN /\ errors' = newErrors
        /\ IF SubmitProceeds(newErrors)
             THEN /\ isLoading' = TRUE
                  /\ submitting' = [pc |-> "awaiting", data |-> <<formData>>]
             ELSE /\ isLoading' = FALSE
                  /\ submitting' = [pc |-> "idle", data |-> <<formData>>]
  /\ UNCHANGED <<cartVars, pageVars, selectorVars, formKind, formData, route>>

\* handleSubmit after its await: the timer of 1000 ms has fired, router.push
\* returns, finally sets isLoading to false.
SubmitResume ==
  /\ submitting.pc = "awaiting"
  /\ route' = Target(formKind)
  /\ isLoading' = FALSE
  /\ submitting' = [submitting EXCEPT !.pc = "idle"]
  /\ UNCHANGED <<cartVars, pageVars, selectorVars, formKind, formData, errors>>

\* handleSubmit after its await when router.push throws: catch sets the
\* submit error, finally sets isLoading to false.
SubmitCaught ==
  /\ submitting.pc = "awaiting"
  /\ errors' = {"submit"}
  /\ isLoading' = FALSE
  /\ submitting' = [submitting EXCEPT !.pc = "idle"]
  /\ UNCHANGED <<cartVars, pageVars, selectorVars, formKind, formData, route>>

InitForm ==
  /\ \E kind \in {"login", "register"} : FormMounted(kind)
  /\ SelectorsMounted
  /\ stock = NoStock
  /\ cartItems = <<>>
  /\ queue = <<>>
  /\ effects = MountEffects
  /\ storage = NoValue
  /\ lastRender = NoRender
  /\ saved = <<>>
  /\ saveFailed = FALSE
  /\ firstAdded = <<>>
  /\ mountInfo = [active |-> TRUE, slot |-> NoValue, snap |-> <<>>, loads |-> 0]
  /\ cell = "array"
  /\ thrown = ""
  /\ catalog = <<>>
  /\ categoryName = <<>>
  /\ categoryProducts = <<>>

NextForm ==
  \/ FormChange
  \/ Submit
  \/ SubmitResume
  \/ SubmitCaught

\* The timer set at the await fires and the event loop runs the rest of
\* handleSubmit: a pending submit does not wait for ever.
SpecForm ==
  InitForm /\ [][NextForm]_vars /\ WF_vars(SubmitResume \/ SubmitCaught)

\* The cart with a slot whose writes may fail.
AddToCartOne == \E id \in ProductIds : UserCall(AddUpdate(Product(id), 1))

NextFail ==
  \/ AddToCartOne
  \/ RemoveFromCart
  \/ LoadEffect
  \/ SaveEffect
  \/ SaveEffectThrows
  \/ Render
  \/ Restart

SpecFail == Init /\ [][NextFail]_vars

\* The development build under reactStrictMode, started on a saved cart.
SavedCarts ==
  { JSONstringify(<<NewEntry(Product(1), 1)>>),
    JSONstringify(<<NewEntry(Product(2), 2), NewEntry(Product(1), 1)>>) }

InitStrict ==
  /\ storage \in SavedCarts
  /\ effects = StrictModeEffects
  /\ cartItems = <<>>
  /\ queue = <<>>
  /\ lastRender = NoRender
  /\ saved = <<>>
  /\ saveFailed = FALSE
  /\ firstAdded = <<>>
  /\ mountInfo = [active |-> TRUE, slot |-> storage, snap |-> <<>>, loads |-> 0]
  /\ cell = "array"
  /\ thrown = ""
  /\ catalog = <<>>
  /\ categoryName = <<>>
  /\ categoryProducts = <<>>
  /\ SelectorsMounted
  /\ stock = NoStock
  /\ FormMounted("login")

\* A page reload of that build.
RestartStrict ==
  /\ MountedWith(storage, saved, StrictModeEffects)
  /\ saveFailed' = FALSE
  /\ UNCHANGED <<storage, saved, pageVars, uiVars>>

NextStrict ==
  \/ AddToCartOne
  \/ RemoveFromCart
  \/ LoadEffect
  \/ SaveEffect
  \/ Render
  \/ RestartStrict

SpecStrict == InitStrict /\ [][NextStrict]_vars

\* The cart under adds of products whose price and options change between adds.
NextCapture ==
  \/ AddToCartVariant
  \/ RemoveFromCart
  \/ LoadEffect
  \/ SaveEffect
  \/ Render
  \/ Restart

SpecCapture == Init /\ [][NextCapture]_vars

(***************************************************************************)
(* Vocabulary of the properties.                                           *)
(***************************************************************************)
\* No update is pending and no effect is scheduled.
Quiescent == queue = <<>> /\ effects = <<>>

\* The current snapshot is the result of a render that applied updates.
Rendered == lastRender.ops # <<>>

\* The last update that render applied, and the snapshot it was applied to.
LastOp == lastRender.ops[Len(lastRender.ops)]

Before ==
  ProcessQueue(lastRender.pre, SubSeq(lastRender.ops, 1, Len(lastRender.ops) - 1))

\* The quantity of the entry for id (of the first one, should there be several).
QuantityOf(items, id) ==
  items[CHOOSE i \in 1..Len(items) :
          /\ items[i].id = id
          /\ \A j \in 1..(i - 1) : items[j].id # id].quantity

IsAdd(u, id) == u.call = "addToCart" /\ u.id = id

(***************************************************************************)
(* C1  Merge law.  addToCart(P, m) followed by addToCart(P, n), m, n > 0,  *)
(* on a cart with no entry for P leaves exactly one entry for P, whose     *)
(* quantity is m + n: when both calls are applied by one render, and when  *)
(* the second is applied by a later render to the result of the first.     *)
(***************************************************************************)
C1_MergeLaw ==
  Rendered =>
    \A id \in ProductIds :
      LET ops == lastRender.ops
          n == Len(ops)
      IN /\ ( /\ n >= 2
              /\ IsAdd(ops[n - 1], id) /\ ops[n - 1].quantity > 0
              /\ IsAdd(ops[n], id) /\ ops[n].quantity > 0
              /\ ~HasId(ProcessQueue(lastRender.pre, SubSeq(ops, 1, n - 2)), id) )
            => /\ CountId(cartItems, id) = 1
               /\ QuantityOf(cartItems, id) = ops[n - 1].quantity + ops[n].quantity
         /\ ( IsAdd(ops[n], id) /\ ops[n].quantity > 0 /\ ~HasId(Before, id) )
            => /\ CountId(cartItems, id) = 1
               /\ QuantityOf(cartItems, id) = ops[n].quantity
         /\ ( IsAdd(ops[n], id) /\ ops[n].quantity > 0 /\ CountId(Before, id) = 1 )
            => /\ CountId(cartItems, id) = 1
               /\ QuantityOf(cartItems, id) = QuantityOf(Before, id) + ops[n].quantity

\* addToCart(P, 1); addToCart(P, 2) applied to a cart without P: one entry, quantity 3.
C1_Witness ==
  /\ Rendered
  /\ lastRender.ops = <<AddUpdate(Product(1), 1), AddUpdate(Product(1), 2)>>
  /\ ~HasId(lastRender.pre, 1)
  /\ CountId(cartItems, 1) = 1
  /\ QuantityOf(cartItems, 1) = 3

(***************************************************************************)
(* C2  At most one entry per product id, in every state reached from the   *)
(* empty cart by addToCart, removeFromCart, updateQuantity and clearCart   *)
(* (and by reloading what those calls saved).                              *)
(***************************************************************************)
C2_OneEntryPerId == \A id \in ProductIds : CountId(cartItems, id) <= 1

\* Two products in the cart, the last call an addToCart of one already there.
C2_Witness ==
  /\ Rendered
  /\ Len(cartItems) = 2
  /\ LastOp.call = "addToCart"
  /\ HasId(Before, LastOp.id)

(***************************************************************************)
(* C3  Every entry of the snapshot and every entry written to the slot     *)
(* has quantity >= 1.                                                      *)
(***************************************************************************)
C3_QuantityAtLeastOne ==
  /\ \A i \in 1..Len(cartItems) : cartItems[i].quantity >= 1
  /\ storage.kind = "array" =>
       \A i \in 1..Len(storage.items) : storage.items[i].quantity >= 1

UserCallPending == queue # <<>> /\ queue[Len(queue)].call # "load"

CallStep == Len(queue') = Len(queue) + 1 /\ queue'[Len(queue')].call # "load"

\* A step in which React renders the queued updates.
RenderStep == queue # <<>> /\ queue' = <<>> /\ lastRender'.ops # <<>>

C6_SlotFollowsSnapshot ==
  (Quiescent /\ ~saveFailed) =>
    /\ storage = JSONstringify(cartItems)
    /\ saved = <<cartItems>>

\* Quiescent after removeFromCart of an id that was not in a non-empty cart.
C6_Witness ==
  /\ Quiescent
  /\ Rendered
  /\ LastOp.call = "removeFromCart"
  /\ ~HasId(Before, LastOp.id)
  /\ cartItems # <<>>
  /\ storage = JSONstringify(cartItems)

(***************************************************************************)
(* C7  updateQuantity(id, q) with q <= 0 gives the snapshot that           *)
(* removeFromCart(id) gives from the same snapshot, id present or absent.  *)
(***************************************************************************)
C7_NonPositiveIsRemove ==
  (Rendered /\ LastOp.call = "updateQuantity" /\ LastOp.quantity <= 0)
    => cartItems = ApplyUpdate(Before, FilterUpdate("removeFromCart", LastOp.id, 0))

\* updateQuantity(id, 0) has removed an entry from a two-entry cart.
C7_Witness ==
  /\ Rendered
  /\ LastOp.call = "updateQuantity"
  /\ LastOp.quantity = 0
  /\ Len(Before) = 2
  /\ HasId(Before, LastOp.id)
  /\ Len(cartItems) = 1

(***************************************************************************)
(* C8  removeFromCart(id) deletes the entries with that id and nothing     *)
(* else, the others keeping their order; on an absent id it leaves the     *)
(* sequence as it was.                                                     *)
(***************************************************************************)
\* The number of entries with this id before position i.
Dropped(items, id, i) == Cardinality({k \in 1..(i - 1) : items[k].id = id})

IsWithout(after, before, id) ==
  /\ ~HasId(after, id)
  /\ Len(after) = Len(before) - CountId(before, id)
  /\ \A i \in 1..Len(before) :
       before[i].id # id => after[i - Dropped(before, id, i)] = before[i]

C8_RemoveOnlyThatEntry ==
  (Rendered /\ LastOp.call = "removeFromCart")
    => /\ IsWithout(cartItems, Before, LastOp.id)
       /\ ~HasId(Before, LastOp.id) => cartItems = Before

\* removeFromCart applied twice in a row to the same id of a two-entry cart.
C8_Witness ==
  /\ Rendered
  /\ Len(lastRender.ops) = 2
  /\ lastRender.ops[1].call = "removeFromCart"
  /\ LastOp = lastRender.ops[1]
  /\ Len(lastRender.pre) = 2
  /\ Len(cartItems) = 1
  /\ cartItems = Before

C10_InsertionOrder ==
  /\ Ids(cartItems) = firstAdded
  /\ (Rendered /\ LastOp.call = "addToCart" /\ ~HasId(Before, LastOp.id))
       => cartItems[Len(cartItems)].id = LastOp.id

\* Product 2 was added before product 1, and the last call raised product 2's quantity.
C10_Witness ==
  /\ Rendered
  /\ Ids(cartItems) = <<2, 1>>
  /\ LastOp.call = "addToCart"
  /\ LastOp.id = 2
  /\ HasId(Before, 2)

(***************************************************************************)
(* C11  Captured fields are frozen.  addToCart(P', q) for an id already in *)
(* the cart, P' carrying another price, selectedColor or selectedSize than *)
(* the stored entry, changes only that entry's quantity (by + q): price    *)
(* and options stay those of the first add, every other entry and the      *)
(* order stay as they were.                                                *)
(***************************************************************************)
IndexOf(items, id) == CHOOSE i \in 1..Len(items) : items[i].id = id

C11_CapturedFieldsFrozen ==
  (Rendered /\ LastOp.call = "addToCart" /\ HasId(Before, LastOp.id)) =>
    LET k == IndexOf(Before, LastOp.id)
    IN /\ Len(cartItems) = Len(Before)
       /\ cartItems[k].price = Before[k].price
       /\ cartItems[k].originalPrice = Before[k].originalPrice
       /\ cartItems[k].selectedColor = Before[k].selectedColor
       /\ cartItems[k].selectedSize = Before[k].selectedSize
       /\ cartItems[k].quantity = Before[k].quantity + LastOp.quantity
       /\ \A i \in 1..Len(Before) : i # k => cartItems[i] = Before[i]

\* An add whose product differs in price, colour and size from the entry it merges into.
C11_Witness ==
  /\ Rendered /\ LastOp.call = "addToCart" /\ HasId(Before, LastOp.id)
  /\ LET k == IndexOf(Before, LastOp.id)
         p == LastOp.product[1]
     IN /\ p.price # Before[k].price
        /\ p.selectedColor # Before[k].selectedColor
        /\ p.selectedSize # Before[k].selectedSize
        /\ cartItems[k].price = Before[k].price
        /\ cartItems[k].quantity = Before[k].quantity + LastOp.quantity

(***************************************************************************)
(* C12  Loading never raises.  A provider mounted on a slot that holds no  *)
(* value, or text that cannot be deserialized, queues nothing and lets no  *)
(* exception out: until the first user call the snapshot is the empty one, *)
(* and once the effects are done the slot holds the empty cart's text.     *)
(***************************************************************************)
StartedOn(kinds) == mountInfo.active /\ mountInfo.slot.kind \in kinds

C12_LoadNeverRaises ==
  StartedOn({"null", "unparsable"}) =>
    /\ thrown = ""
    /\ cell = "array"
    /\ cartItems = <<>>
    /\ queue = <<>>
    /\ mountInfo.loads = 0
    /\ effects = <<>> => storage = JSONstringify(<<>>)

\* Startup on unparsable text, effects done.
C12_Witness ==
  /\ StartedOn({"unparsable"})
  /\ effects = <<>>
  /\ cartItems = <<>>
  /\ thrown = ""
  /\ storage = JSONstringify(<<>>)

(***************************************************************************)
(* C13  Whatever the slot holds at startup, values that parse to something *)
(* other than an array included, the snapshot is usable: cartItems is an   *)
(* array and getTotalItems(), getTotalPrice() and isCartEmpty() return     *)
(* without throwing.                                                       *)
(***************************************************************************)
C13_UsableSnapshot ==
  /\ cell = "array"
  /\ ~getTotalItemsThrows(cell)
  /\ ~getTotalPriceThrows(cell)
  /\ ~isCartEmptyThrows(cell)
  /\ thrown = ""

(***************************************************************************)
(* C14  A failing save is not fatal.  The step in which the write of the   *)
(* slot throws leaves the in-memory snapshot (the post-mutation one), the  *)
(* queue and the slot as they were, lets no exception out and schedules no *)
(* retry; renders after a failed save still apply the queued calls to the  *)
(* in-memory snapshot; and the slot always holds the text of the snapshot  *)
(* last written with success.                                              *)
(***************************************************************************)
FailedSaveStep == effects # <<>> /\ Head(effects) = "save" /\ saveFailed'

C14_FailedSaveNonFatal ==
  /\ [][FailedSaveStep =>
          /\ cartItems' = cartItems
          /\ cell' = cell
          /\ queue' = queue
          /\ storage' = storage
          /\ thrown' = ""
          /\ effects' = Tail(effects)]_vars
  /\ [][(saveFailed /\ RenderStep) =>
          /\ cartItems' = ProcessQueue(cartItems, queue)
          /\ thrown' = ""]_vars
  /\ [](saveFailed =>
          /\ thrown = ""
          /\ IF saved = <<>> THEN storage = NoValue
                            ELSE storage = JSONstringify(saved[1]))

\* Two adds, each rendered and each followed by a failed save: two entries
\* in memory, the slot still with the empty cart of the first save.
C14_Witness ==
  /\ saveFailed
  /\ effects = <<>> /\ queue = <<>>
  /\ Len(cartItems) = 2
  /\ storage = JSONstringify(<<>>)
  /\ thrown = ""

(***************************************************************************)
(* C15  In every reachable snapshot getTotalItems() is the sum of quantity *)
(* over the entries and getTotalPrice() the sum of price * quantity over   *)
(* the entries, both 0 for the empty snapshot; the reads are functions of  *)
(* the current snapshot alone.                                             *)
(***************************************************************************)
RECURSIVE SumOver(_, _)
SumOver(weights, indices) ==
  IF indices = {} THEN 0
  ELSE LET i == CHOOSE j \in indices : TRUE
       IN weights[i] + SumOver(weights, indices \ {i})

C15_Totals ==
  /\ getTotalItems =
       SumOver([i \in 1..Len(cartItems) |-> cartItems[i].quantity], 1..Len(cartItems))
  /\ getTotalPrice =
       SumOver([i \in 1..Len(cartItems) |-> cartItems[i].price * cartItems[i].quantity],
               1..Len(cartItems))
  /\ cartItems = <<>> => (getTotalItems = 0 /\ getTotalPrice = 0)

\* Two entries of quantity 2 and 3: 5 items, 10 * 3 + 25 * 2 = 80.
C15_Witness ==
  /\ Rendered
  /\ Len(cartItems) = 2
  /\ QuantityOf(cartItems, 1) = 3 /\ QuantityOf(cartItems, 2) = 2
  /\ getTotalItems = 5
  /\ getTotalPrice = 80

(***************************************************************************)
(* C16  The store exposes the aggregates the cart page reads,              *)
(* getOriginalTotalPrice() (the sum of (originalPrice, else price) *       *)
(* quantity) and getTotalDiscount() (that sum less getTotalPrice(), not    *)
(* below 0): the cart page renders from every snapshot without an error.   *)
(***************************************************************************)
C16_CartPageAggregates == thrown = ""

(***************************************************************************)
(* C17  clearCart() from any snapshot yields the empty snapshot, in which  *)
(* isCartEmpty() is true and getTotalItems() and getTotalPrice() are 0;    *)
(* isCartEmpty() is true exactly when the snapshot has no entry.           *)
(***************************************************************************)
C17_ClearAndEmpty ==
  /\ (Rendered /\ LastOp.call = "clearCart") =>
       /\ cartItems = <<>>
       /\ isCartEmpty
       /\ getTotalItems = 0
       /\ getTotalPrice = 0
  /\ isCartEmpty <=> DOMAIN cartItems = {}

\* clearCart on a cart of two entries.
C17_Witness ==
  /\ Rendered /\ LastOp.call = "clearCart"
  /\ Len(Before) = 2
  /\ cartItems = <<>>
  /\ isCartEmpty

(***************************************************************************)
(* C18  For every selector and every catalog the output of the category    *)
(* filter is a subsequence of the catalog: catalog products only, each at  *)
(* most once, in the catalog's order.                                      *)
(***************************************************************************)
PageRendered == categoryProducts # <<>>

IsSubsequence(out, in) ==
  \E f \in [1..Len(out) -> 1..Len(in)] :
    /\ \A i \in 1..Len(out) : out[i] = in[f[i]]
    /\ \A i, j \in 1..Len(out) : i < j => f[i] < f[j]

C18_Subsequence ==
  PageRendered => IsSubsequence(categoryProducts[1], catalog)

\* Both products of a catalog of two kept, in the catalog's order.
C18_Witness ==
  /\ PageRendered
  /\ Len(catalog) = 2
  /\ categoryProducts[1] = catalog
  /\ catalog[1] # [catalog[2] EXCEPT !.id = 1]

(***************************************************************************)
(* C19  The filter does not depend on the selector's letter case nor on    *)
(* which spelling of a promotional selector is used: on every catalog two  *)
(* selectors that differ only in letter case give the same output, and so  *)
(* do the spaced and the hyphenated spelling of "Sale & Clearance",        *)
(* "Cyber Days" and "Black Friday".                                        *)
(***************************************************************************)
SameLetter(c, d) ==
  \/ c = d
  \/ \E k \in 1..Len(UpperCase) : {c, d} = {UpperCase[k], LowerCase[k]}

DiffersOnlyInCase(a, b) ==
  /\ Len(a) = Len(b)
  /\ \A i \in 1..Len(a) : SameLetter(a[i], b[i])

PromotionalSpellings ==
  { {TextSaleClearance, TextSaleClearanceSlug},
    {TextCyberDays, TextCyberDaysSlug},
    {TextBlackFriday, TextBlackFridaySlug} }

SameSelector(a, b) ==
  \/ DiffersOnlyInCase(a, b)
  \/ \E pair \in PromotionalSpellings :
       \E x, y \in pair : DiffersOnlyInCase(a, x) /\ DiffersOnlyInCase(b, y)

C19_SelectorInsensitive ==
  PageRendered =>
    \A other \in Selectors :
      SameSelector(categoryName, other) =>
        FilterProducts(other, catalog) = categoryProducts[1]

\* "SALE-CLEARANCE" keeps one product of two, as "Sale & Clearance" does.
C19_Witness ==
  /\ PageRendered
  /\ categoryName = TextSaleClearanceUpper
  /\ Len(catalog) = 2
  /\ Len(categoryProducts[1]) = 1
  /\ FilterProducts(TextSaleClearance, catalog) = categoryProducts[1]
  /\ FilterProducts(TextSaleClearanceSlug, catalog) = categoryProducts[1]

(***************************************************************************)
(* C20  Promotional selectors select by flags only.  For a selector that   *)
(* is, letter case apart, sale & clearance, sale-clearance, black friday   *)
(* or black-friday, the output is exactly the products with onSale true;   *)
(* for featured, those with featured true; for cyber days or cyber-days,   *)
(* those with onSale or featured true.  The category plays no part: a      *)
(* product of category "Featured" with featured false is not returned.     *)
(***************************************************************************)
IsSelector(name, texts) == \E t \in texts : DiffersOnlyInCase(name, t)

OnSale(product) == product.onSale = TRUE

IsFeatured(product) == product.featured = TRUE

OnSaleOrFeatured(product) == OnSale(product) \/ IsFeatured(product)

C20_PromotionalByFlags ==
  PageRendered =>
    /\ IsSelector(categoryName, {TextSaleClearance, TextSaleClearanceSlug,
                                 TextBlackFriday, TextBlackFridaySlug})
         => categoryProducts[1] = SelectSeq(catalog, OnSale)
    /\ IsSelector(categoryName, {TextFeatured})
         => categoryProducts[1] = SelectSeq(catalog, IsFeatured)
    /\ IsSelector(categoryName, {TextCyberDays, TextCyberDaysSlug})
         => categoryProducts[1] = SelectSeq(catalog, OnSaleOrFeatured)

\* "Featured" on a catalog whose first product has the category "Featured"
\* and is not featured, and whose second is featured: the second alone.
C20_Witness ==
  /\ PageRendered
  /\ categoryName = TextFeatured
  /\ Len(catalog) = 2
  /\ catalog[1].category = {TextFeatured} /\ ~catalog[1].featured
  /\ catalog[2].category = {TextShoes} /\ catalog[2].featured
  /\ categoryProducts[1] = <<catalog[2]>>

(***************************************************************************)
(* C21  The work boots rule compares the category with an exact-case       *)
(* literal: for a selector that lower-cases to "work boots & shoes" or     *)
(* "work-boots-and-shoes" the output is exactly the products whose         *)
(* category is "Work Boots & Shoes"; a product whose category is           *)
(* "work boots & shoes" is left out.                                       *)
(***************************************************************************)
HasWorkBootsCategory(product) == product.category = {TextWorkBoots}

C21_WorkBootsExactCase ==
  (PageRendered /\ IsSelector(categoryName, {TextWorkBootsLower, TextWorkBootsSlug})) =>
    /\ categoryProducts[1] = SelectSeq(catalog, HasWorkBootsCategory)
    /\ \A i \in 1..Len(categoryProducts[1]) :
         categoryProducts[1][i].category # {TextWorkBootsLower}

\* "work-boots-and-shoes" on a catalog of a "Work Boots & Shoes" product and
\* a "work boots & shoes" one: the first alone.
C21_Witness ==
  /\ PageRendered
  /\ categoryName = TextWorkBootsSlug
  /\ Len(catalog) = 2
  /\ catalog[1].category = {TextWorkBoots}
  /\ catalog[2].category = {TextWorkBootsLower}
  /\ categoryProducts[1] = <<catalog[1]>>

(***************************************************************************)
(* C22  The default rule.  For a selector that is none of the special      *)
(* ones the output is exactly the products that have a category equal to   *)
(* the selector, letter case apart; products without a category are never  *)
(* returned; a selector no product has gives the empty list, and nothing   *)
(* is thrown.                                                              *)
(***************************************************************************)
SpecialSelectors ==
  { TextSaleClearance, TextSaleClearanceSlug, TextFeatured,
    TextCyberDays, TextCyberDaysSlug, TextBlackFriday, TextBlackFridaySlug,
    TextWorkBoots, TextWorkBootsSlug }

HasCategoryNamed(product) ==
  \E c \in product.category : DiffersOnlyInCase(c, categoryName)

C22_DefaultRule ==
  (PageRendered /\ ~IsSelector(categoryName, SpecialSelectors)) =>
    /\ categoryProducts[1] = SelectSeq(catalog, HasCategoryNamed)
    /\ \A i \in 1..Len(categoryProducts[1]) : categoryProducts[1][i].category # {}
    /\ (\A i \in 1..Len(catalog) : ~HasCategoryNamed(catalog[i])) => categoryProducts[1] = <<>>
    /\ thrown = ""

\* "SHOES" on a catalog of a "Shoes" product and one without category.
C22_Witness ==
  /\ PageRendered
  /\ categoryName = TextShoesUpper
  /\ Len(catalog) = 2
  /\ catalog[1].category = {}
  /\ catalog[2].category = {TextShoes}
  /\ categoryProducts[1] = <<catalog[2]>>

(***************************************************************************)
(* C23  addToCart does not validate its quantity.  addToCart(P, q) with    *)
(* q <= 0 appends an entry of quantity q when P's id is absent and adds q  *)
(* to the stored quantity when it is present, which may leave a quantity   *)
(* <= 0; it never throws and never removes the entry.                      *)
(***************************************************************************)
C23_AddUnvalidated ==
  (Rendered /\ LastOp.call = "addToCart" /\ LastOp.quantity <= 0) =>
    /\ thrown = ""
    /\ IF HasId(Before, LastOp.id)
         THEN /\ Len(cartItems) = Len(Before)
              /\ HasId(cartItems, LastOp.id)
              /\ QuantityOf(cartItems, LastOp.id)
                   = QuantityOf(Before, LastOp.id) + LastOp.quantity
         ELSE /\ Len(cartItems) = Len(Before) + 1
              /\ SubSeq(cartItems, 1, Len(Before)) = Before
              /\ cartItems[Len(cartItems)].id = LastOp.id
              /\ cartItems[Len(cartItems)].quantity = LastOp.quantity

\* addToCart(P, -1) on an entry of quantity 1: the entry stays, with quantity 0.
C23_Witness ==
  /\ Rendered /\ LastOp.call = "addToCart" /\ LastOp.quantity = MinQty
  /\ HasId(Before, LastOp.id)
  /\ QuantityOf(Before, LastOp.id) = 1
  /\ HasId(cartItems, LastOp.id)
  /\ QuantityOf(cartItems, LastOp.id) = 0

(***************************************************************************)
(* C24  Callers clamp the lower bound.  Under the events of the quantity   *)
(* selectors, the Add to Cart buttons and the + / - / remove buttons of    *)
(* the cart, every addToCart and updateQuantity call receives a quantity   *)
(* >= 1 (a decrement from 1 goes to removeFromCart), so every entry has    *)
(* quantity >= 1 in every reachable state.                                 *)
(***************************************************************************)
CallsClamped(updates) ==
  \A i \in 1..Len(updates) :
    updates[i].call \in {"addToCart", "updateQuantity"} => updates[i].quantity >= 1

C24_CallersClamp ==
  /\ \A id \in ProductIds : quantityState[id] >= 1
  /\ CallsClamped(queue)
  /\ CallsClamped(lastRender.ops)
  /\ \A i \in 1..Len(cartItems) : cartItems[i].quantity >= 1

\* A removeFromCart applied to an entry of quantity 1 (the "-" of the cart
\* at quantity 1 makes this call), after which the id is gone.
C24_Witness ==
  /\ Rendered
  /\ LastOp.call = "removeFromCart"
  /\ HasId(Before, LastOp.id)
  /\ QuantityOf(Before, LastOp.id) = 1
  /\ ~HasId(cartItems, LastOp.id)

(***************************************************************************)
(* C25  The stock bound is enforced by the UI: under those same events the *)
(* quantity of an entry never exceeds the stock of its product, when the   *)
(* product has one.                                                        *)
(***************************************************************************)
C25_StockBound ==
  \A i \in 1..Len(cartItems) :
    stock[cartItems[i].id] # {} => cartItems[i].quantity <= StockOf(cartItems[i].id)

(***************************************************************************)
(* C26  Mutating calls made back to back, before any render, are applied   *)
(* in call order, each to the result of the one before, and none is lost:  *)
(* addToCart(P, m); addToCart(P, n) gives one entry of quantity m + n,     *)
(* addToCart(P, 1); removeFromCart(P.id) leaves no entry for P,            *)
(* addToCart(P, 1); updateQuantity(P.id, k) gives quantity k.              *)
(***************************************************************************)
TwoCalls ==
  /\ Rendered
  /\ Len(lastRender.ops) = 2
  /\ lastRender.ops[1].call # "load"
  /\ lastRender.ops[2].call # "load"

C26_BackToBack ==
  TwoCalls =>
    LET pre == lastRender.pre
        a == lastRender.ops[1]
        b == lastRender.ops[2]
    IN /\ cartItems = ApplyUpdate(ApplyUpdate(pre, a), b)
       /\ (a.call = "addToCart" /\ b.call = "addToCart" /\ a.id = b.id /\ ~HasId(pre, a.id))
            => /\ CountId(cartItems, a.id) = 1
               /\ QuantityOf(cartItems, a.id) = a.quantity + b.quantity
       /\ (a.call = "addToCart" /\ b.call = "removeFromCart" /\ a.id = b.id)
            => ~HasId(cartItems, a.id)
       /\ (a.call = "addToCart" /\ b.call = "updateQuantity" /\ a.id = b.id /\ b.quantity > 0)
            => /\ CountId(cartItems, a.id) = 1
               /\ QuantityOf(cartItems, a.id) = b.quantity

\* addToCart(P, 1); updateQuantity(P.id, 2) in one tick on a cart without P.
C26_Witness ==
  /\ TwoCalls
  /\ lastRender.ops[1] = AddUpdate(Product(1), 1)
  /\ lastRender.ops[2] = UpdateQuantityCall(1, 2)
  /\ ~HasId(lastRender.pre, 1)
  /\ QuantityOf(cartItems, 1) = 2

(***************************************************************************)
(* C27  Startup never clobbers the saved cart: from the mount of the       *)
(* provider until the first user call the slot holds, at every step, the   *)
(* non-empty cart it held before the mount.                                *)
(***************************************************************************)
C27_StartupKeepsSlot ==
  (mountInfo.active /\ mountInfo.slot.kind = "array" /\ mountInfo.slot.items # <<>>) =>
    storage = mountInfo.slot

(***************************************************************************)
(* C28  With reactStrictMode, where the mount effects run twice (load,     *)
(* save, load, save) before the queued updates are applied, the cart in    *)
(* memory after startup is the non-empty cart that was saved before it,    *)
(* and the slot ends up holding that cart.                                 *)
(***************************************************************************)
C28_StrictModeStartup ==
  ( /\ mountInfo.active
    /\ mountInfo.slot.kind = "array" /\ mountInfo.slot.items # <<>>
    /\ effects = <<>> /\ queue = <<>> ) =>
    /\ cartItems = JSONparse(mountInfo.slot)
    /\ storage = mountInfo.slot

(***************************************************************************)
(* C29  updateQuantity(id, q) with q > 0 for an id that is not in the cart *)
(* leaves the snapshot as it was: no entry is created, and the entries,    *)
(* their quantities and their order are those before the call.             *)
(***************************************************************************)
C29_UpdateAbsentIsNoOp ==
  ( /\ Rendered
    /\ LastOp.call = "updateQuantity" /\ LastOp.quantity > 0
    /\ ~HasId(Before, LastOp.id) ) =>
    /\ cartItems = Before
    /\ ~HasId(cartItems, LastOp.id)

\* updateQuantity(2, 2) on a cart that holds product 1 alone.
C29_Witness ==
  /\ Rendered
  /\ LastOp.call = "updateQuantity" /\ LastOp.quantity = 2 /\ LastOp.id = 2
  /\ Len(Before) = 1 /\ Before[1].id = 1
  /\ cartItems = Before

(***************************************************************************)
(* C30  In the Login and Register forms navigation (to "/" and to          *)
(* "/login") happens only after a submit whose validation passed; a submit *)
(* whose validation fails sets isLoading not and navigates not; every      *)
(* submit that sets isLoading to true sets it back to false in the end,    *)
(* and the submit button is disabled in between.                           *)
(***************************************************************************)
LastSubmitPassed ==
  submitting.data # <<>> /\ validateForm(formKind, submitting.data[1]) = {}

LastSubmitFailed ==
  submitting.data # <<>> /\ validateForm(formKind, submitting.data[1]) # {}

C30_FormSafety ==
  /\ route # "" => (LastSubmitPassed /\ route = Target(formKind))
  /\ isLoading => (LastSubmitPassed /\ submitting.pc = "awaiting")
  /\ LastSubmitFailed => (~isLoading /\ route = "" /\ submitting.pc = "idle")
  /\ submitting.pc = "awaiting" => (isLoading /\ SubmitDisabled)

C30_Forms == []C30_FormSafety /\ (isLoading ~> ~isLoading)

\* The Register form after a valid submit has resumed: at "/login", not loading.
C30_Witness ==
  /\ formKind = "register"
  /\ route = "/login"
  /\ LastSubmitPassed
  /\ ~isLoading

====
